---------------------------- MODULE Spec2Model ----------------------------
(***************************************************************************)
(* A model of ProcureSmart/Backend/predict.py: the in-memory catalog       *)
(* tables and their loader, the price forecaster, the vendor ranker, the   *)
(* deadline feasibility check and the reminder list it feeds.              *)
(*                                                                         *)
(* A DataFrame is a record [columns, rows]; a row is a function from the   *)
(* column names to cells.  Text is an atomic string, except date text      *)
(* "YYYY-MM-DD", which is the tuple <<YYYY, MM, DD>> of its fixed-width     *)
(* fields (so that string order is the lexicographic order of the tuple).  *)
(* A calendar date (datetime.date, Timestamp) is a day number.             *)
(***************************************************************************)
EXTENDS Integers, Sequences, FiniteSets, TLC

VARIABLES
    materials_df,            \* predict.py:10
    prices_df,               \* predict.py:11
    vendors_df,              \* predict.py:12
    initialization_success,  \* predict.py:13
    SYSTEM_REMINDERS,        \* predict.py:14, each entry [serial, dict]
    clock,                   \* datetime.now(): [day, sec]
    request,                 \* the argument of the call made in the last step
    result,                  \* what the call made in the last step returned
    created,                 \* history: every reminder ever appended, in order
    emitted,                 \* history: per reminder, in how many returned alert lists it was
    threads                  \* the position of each running get_system_alerts call

vars == <<materials_df, prices_df, vendors_df, initialization_success,
          SYSTEM_REMINDERS, clock, request, result, created, emitted, threads>>

---------------------------------------------------------------------------
\* Bounds of the model.

\* The calendar days the clock and the deadlines range over: 0 .. MaxDay.
MaxDay == 3
\* The number of reminders ever appended in one behaviour.
MaxCreated == 2
\* The number of rows of a table drawn as an input.
MaxRows == 2

\* The seconds of a day the clock distinguishes.
Seconds == {0, 1}
SecondsPerDay == Cardinality(Seconds)

Days == 0 .. MaxDay

---------------------------------------------------------------------------
\* Dates and their text.

\* date.strftime('%Y-%m-%d'): day 0 is 2024-12-28; the days run over the end
\* of the year and of January.
strftime(n) ==
    IF n <= 3 THEN <<2024, 12, 28 + n>>
    ELSE IF n <= 34 THEN <<2025, 1, n - 3>>
    ELSE <<2025, 2, n - 34>>

\* The days the calendar above gives a text to.
CalendarDays == 0 .. 62

\* Whether a text is a date datetime.strptime(s, '%Y-%m-%d') / pd.to_datetime accepts.
IsDateText(s) == \E n \in CalendarDays : strftime(n) = s

\* datetime.strptime(s, '%Y-%m-%d').date()
strptime(s) == CHOOSE n \in CalendarDays : strftime(n) = s

\* a <= b on two 'YYYY-MM-DD' strings (Python's str comparison)
StrLeq(a, b) ==
    \/ a[1] < b[1]
    \/ a[1] = b[1] /\ a[2] < b[2]
    \/ a[1] = b[1] /\ a[2] = b[2] /\ a[3] <= b[3]

\* str.lower() on the material ids of the model
Lower(s) ==
    CASE s = "M1" -> "m1"
      [] s = "M2" -> "m2"
      [] OTHER -> s

\* datetime.now().date()
Today == clock.day

\* int(datetime.now().timestamp())
Timestamp == clock.day * SecondsPerDay + clock.sec

---------------------------------------------------------------------------
\* DataFrames.

\* pd.DataFrame()
EmptyFrame == [columns |-> {}, rows |-> <<>>]

\* df[df['material_id'].astype(str).str.lower() == str(material_id).lower()]
ForMaterial(df, material_id) ==
    LET Match(r) == Lower(r["material_id"]) = Lower(material_id)
    IN  SelectSeq(df.rows, Match)


\* Series.idxmax(): the first position of the largest value of a column
IdxMax(rows, col) ==
    CHOOSE i \in 1 .. Len(rows) :
        /\ \A j \in 1 .. Len(rows) : rows[j][col] <= rows[i][col]
        /\ \A j \in 1 .. (i - 1) : rows[j][col] < rows[i][col]

\* Series.idxmin(): the first position of the smallest value of a column
IdxMin(rows, col) ==
    CHOOSE i \in 1 .. Len(rows) :
        /\ \A j \in 1 .. Len(rows) : rows[j][col] >= rows[i][col]
        /\ \A j \in 1 .. (i - 1) : rows[j][col] > rows[i][col]

\* f"Rs{x:,.2f}" of a whole number: the currency sign, the units, the two decimals
FormatRupees(x) == <<"Rs", x, "00">>

---------------------------------------------------------------------------
\* check_requirement (predict.py:102-166).

NoCall == [kind |-> "none"]
NoVendor == [vendor_id |-> "none"]

\* predict.py:106
DaysToDeadline(deadline_str, today) == strptime(deadline_str) - today

\* A check that lets yesterday's deadline through.
DeadlinePassed_Late(days_to_deadline) == days_to_deadline < -1

\* predict.py:108
DeadlinePassed(days_to_deadline) == days_to_deadline < 0

\* A filter that wants the delivery strictly before the deadline.
FeasibleVendors_Strict(vendors, days_to_deadline) ==
    LET InTime(r) == r["delivery_days"] < days_to_deadline
    IN  SelectSeq(vendors, InTime)

\* predict.py:119
FeasibleVendors(vendors, days_to_deadline) ==
    LET InTime(r) == r["delivery_days"] <= days_to_deadline
    IN  SelectSeq(vendors, InTime)

\* A fallback that takes the first offer instead of the fastest.
FastestVendor_First(vendors) == vendors[1]

\* predict.py:121
FastestVendor(vendors) == vendors[IdxMin(vendors, "delivery_days")]

\* predict.py:136
BestVendor(feasible) == feasible[IdxMax(feasible, "reliability_score")]

\* predict.py:122, 137
TotalPrice(quantity_needed, vendor) == quantity_needed * vendor["price_per_unit"]

\* predict.py:125-133, 157-165
VendorDetails(vendor, material_id, quantity_needed, is_feasible) ==
    [vendor_id |-> vendor["vendor_id"],
     material_id |-> material_id,
     quantity |-> quantity_needed,
     price_per_unit |-> FormatRupees(vendor["price_per_unit"]),
     total_price |-> FormatRupees(TotalPrice(quantity_needed, vendor)),
     delivery_days |-> vendor["delivery_days"],
     is_feasible |-> is_feasible]

\* A reminder one day before the deadline.
ReminderDate_OneDay(deadline_str) == strptime(deadline_str) - 1

\* predict.py:142-143
ReminderDate(deadline_str) == strptime(deadline_str) - 2

\* predict.py:145
ReminderWanted(reminder_date, today) == reminder_date >= today

\* predict.py:147
ReminderId(timestamp) == <<"rem_", timestamp>>

\* predict.py:146-153
NewReminder(req, best, timestamp) ==
    [id |-> ReminderId(timestamp),
     material_id |-> req.material_id,
     quantity |-> req.quantity,
     deadline |-> req.deadline,
     reminder_date |-> strftime(ReminderDate(req.deadline)),
     assigned_vendor |-> best["vendor_id"]]

\* What a call returns and what it appends to SYSTEM_REMINDERS (<<>>: nothing).
Outcome(status, title, vendor_details, append) ==
    [ret |-> [kind |-> "check_requirement", status |-> status, title |-> title,
              vendor_details |-> vendor_details],
     append |-> append]

\* A call that ends in an exception (the transport answers 500).
Raise(exception) == [ret |-> [kind |-> "raise", exception |-> exception], append |-> <<>>]

\* The body of check_requirement on the vendors table, the date and the timestamp
\* datetime.now() gives during the call: the call's three readings of the clock
\* (predict.py:106, 145, 147) are taken to fall on one date and second.
CheckRequirement(req, df, today, timestamp) ==
    LET days_to_deadline == DaysToDeadline(req.deadline, today)
        vendors == ForMaterial(df, req.material_id)
        feasible == FeasibleVendors(vendors, days_to_deadline)
        best == BestVendor(feasible)
    IN  IF DeadlinePassed(days_to_deadline)
        THEN Outcome("error", "Invalid Deadline", NoVendor, <<>>)
        ELSE IF "material_id" \notin df.columns
        THEN Raise("KeyError")
        ELSE IF vendors = <<>>
        THEN Outcome("warning", "No Suppliers Found", NoVendor, <<>>)
        ELSE IF "delivery_days" \notin df.columns
        THEN Raise("KeyError")
        ELSE IF feasible = <<>>
        THEN IF ~({"price_per_unit", "vendor_id"} \subseteq df.columns)
             THEN Raise("KeyError")
             ELSE
             Outcome("warning", "Deadline Unmet",
                     VendorDetails(FastestVendor(vendors), req.material_id,
                                   req.quantity, FALSE),
                     <<>>)
        ELSE IF ~({"reliability_score", "price_per_unit", "vendor_id"} \subseteq df.columns)
        THEN Raise("KeyError")
        ELSE Outcome("success", "Requirement Feasible",
                     VendorDetails(best, req.material_id, req.quantity, TRUE),
                     IF ReminderWanted(ReminderDate(req.deadline), today)
                     THEN <<NewReminder(req, best, timestamp)>>
                     ELSE <<>>)

\* The requirements the callers send.
Quantities == {3}
Requirements ==
    [kind : {"check_requirement"}, material_id : {"m1", "M2"},
     quantity : Quantities, deadline : {strftime(d) : d \in Days}]

\* One call of check_requirement.
check_requirement(req) ==
    LET out == CheckRequirement(req, vendors_df, Today, Timestamp)
        serial == Len(created) + 1
    IN  /\ out.append # <<>> => Len(created) < MaxCreated
        /\ request' = req
        /\ result' = out.ret
        /\ IF out.append # <<>>
           THEN /\ SYSTEM_REMINDERS' =
                       Append(SYSTEM_REMINDERS, [serial |-> serial, dict |-> out.append[1]])
                /\ created' = Append(created, out.append[1])
                /\ emitted' = Append(emitted, 0)
           ELSE UNCHANGED <<SYSTEM_REMINDERS, created, emitted>>
        /\ UNCHANGED <<materials_df, prices_df, vendors_df, initialization_success,
                       clock, threads>>

---------------------------------------------------------------------------
\* get_system_alerts (predict.py:169-191).

\* predict.py:179
IsDue(reminder, today_str) == StrLeq(reminder.reminder_date, today_str)

\* predict.py:180-187
AlertOf(reminder) ==
    [id |-> reminder.id,
     message |-> <<reminder.quantity, reminder.material_id,
                   reminder.assigned_vendor, reminder.deadline>>]

\* x in list, by the equality of the dicts
Contains(list, reminder) == \E i \in 1 .. Len(list) : list[i].dict = reminder

\* A loop that never removes what it alerted.
RemoveFirst_Keep(list, reminder) == list

\* list.remove(x): the first entry equal to x goes (predict.py:188)
RemoveFirst(list, reminder) ==
    LET i == CHOOSE k \in 1 .. Len(list) :
                 /\ list[k].dict = reminder
                 /\ \A j \in 1 .. (k - 1) : list[j].dict # reminder
    IN  SubSeq(list, 1, i - 1) \o SubSeq(list, i + 1, Len(list))

\* One pass of the loop body (predict.py:178-189) for the entry `entry` of the
\* copy, on the list as it is now: the list afterwards, the alert appended (if
\* any) and whether list.remove raised ValueError.
Iterate(entry, live, today_str) ==
    IF ~IsDue(entry.dict, today_str)
    THEN [live |-> live, alerts |-> <<>>, serials |-> {}, raised |-> FALSE]
    ELSE IF ~Contains(live, entry.dict)
    THEN [live |-> live, alerts |-> <<AlertOf(entry.dict)>>, serials |-> {},
          raised |-> TRUE]
    ELSE [live |-> RemoveFirst(live, entry.dict), alerts |-> <<AlertOf(entry.dict)>>,
          serials |-> {entry.serial}, raised |-> FALSE]

\* The whole loop over the copy SYSTEM_REMINDERS[:].
RECURSIVE Scan(_, _, _)
Scan(copy, live, today_str) ==
    IF copy = <<>>
    THEN [live |-> live, alerts |-> <<>>, serials |-> {}, raised |-> FALSE]
    ELSE LET one == Iterate(Head(copy), live, today_str)
             rest == Scan(Tail(copy), one.live, today_str)
         IN  IF one.raised THEN one
             ELSE [live |-> rest.live, alerts |-> one.alerts \o rest.alerts,
                   serials |-> one.serials \cup rest.serials, raised |-> rest.raised]

\* The reminders in the list.
PendingSerials == {SYSTEM_REMINDERS[i].serial : i \in 1 .. Len(SYSTEM_REMINDERS)}

\* The history of emissions after a poll returned the reminders `serials`.
Emit(serials) ==
    [s \in DOMAIN emitted |-> IF s \in serials THEN emitted[s] + 1 ELSE emitted[s]]

\* One call of get_system_alerts, run alone.
get_system_alerts ==
    LET done == Scan(SYSTEM_REMINDERS, SYSTEM_REMINDERS, strftime(Today))
    IN  /\ SYSTEM_REMINDERS' = done.live
        /\ request' = [kind |-> "get_system_alerts"]
        /\ result' = IF done.raised
                     THEN [kind |-> "raise", exception |-> "ValueError"]
                     ELSE [kind |-> "alerts", alerts |-> done.alerts]
        /\ emitted' = IF done.raised THEN emitted ELSE Emit(done.serials)
        /\ UNCHANGED <<materials_df, prices_df, vendors_df, initialization_success,
                       clock, created, threads>>

\* The wall clock is set to any other date and second, forwards or backwards.
SetClock ==
    /\ clock' \in [day : Days, sec : Seconds] \ {clock}
    /\ request' = NoCall
    /\ result' = NoCall
    /\ UNCHANGED <<materials_df, prices_df, vendors_df, initialization_success,
                   SYSTEM_REMINDERS, created, emitted, threads>>

---------------------------------------------------------------------------
\* The tables the model loads.

VendorColumns ==
    {"material_id", "vendor_id", "reliability_score", "delivery_days", "price_per_unit"}

\* predict.py:76
RankRequiredColumns == VendorColumns

Offer(material_id, vendor_id, reliability_score, delivery_days, price_per_unit) ==
    [material_id |-> material_id, vendor_id |-> vendor_id,
     reliability_score |-> reliability_score, delivery_days |-> delivery_days,
     price_per_unit |-> price_per_unit]

\* Offers with ties in reliability and in delivery time, ids in both cases,
\* and one that delivers the same day.
Offers ==
    {Offer("M1", "V1", 4, 1, 3), Offer("m1", "V2", 5, 3, 2),
     Offer("M1", "V3", 5, 3, 4), Offer("M2", "V4", 3, 0, 5)}

SeqsUpTo(S, n) == UNION {[1 .. k -> S] : k \in 0 .. n}

VendorTables == {[columns |-> VendorColumns, rows |-> rows] : rows \in SeqsUpTo(Offers, MaxRows)}

SampleVendors ==
    [columns |-> VendorColumns,
     rows |-> <<Offer("M1", "V1", 4, 1, 3), Offer("m1", "V2", 5, 3, 2)>>]

SampleMaterials ==
    [columns |-> {"material_id", "name"},
     rows |-> <<[material_id |-> "M1", name |-> "Steel"]>>]

\* The requirements for the material the sample table stocks.
StockRequirements == {req \in Requirements : req.material_id = "m1"}

NoThreads == <<>>

---------------------------------------------------------------------------
\* The reminder list under calls made one after the other.

Init ==
    /\ materials_df = SampleMaterials
    /\ prices_df = EmptyFrame
    /\ vendors_df = SampleVendors
    /\ initialization_success = TRUE
    /\ SYSTEM_REMINDERS = <<>>
    /\ clock = [day |-> 0, sec |-> 0]
    /\ request = NoCall
    /\ result = NoCall
    /\ created = <<>>
    /\ emitted = <<>>
    /\ threads = NoThreads

Next ==
    \/ \E req \in StockRequirements : check_requirement(req)
    \/ get_system_alerts
    \/ SetClock

Spec == Init /\ [][Next]_vars

---------------------------------------------------------------------------
\* check_requirement on every vendors table and date.

InitEval ==
    /\ materials_df = SampleMaterials
    /\ prices_df = EmptyFrame
    /\ vendors_df \in VendorTables
    /\ initialization_success = TRUE
    /\ SYSTEM_REMINDERS = <<>>
    /\ clock \in [day : Days, sec : {0}]
    /\ request = NoCall
    /\ result = NoCall
    /\ created = <<>>
    /\ emitted = <<>>
    /\ threads = NoThreads

NextEval == \E req \in Requirements : check_requirement(req)

SpecEval == InitEval /\ [][NextEval]_vars

---------------------------------------------------------------------------
\* standardize_df_columns and initialize_data_from_csv (predict.py:16-46).

\* str.strip().str.lower() on the column headers of the model (predict.py:17)
StripLower(name) ==
    CASE name = " Material " -> "material"
      [] name = "ID" -> "id"
      [] name = "Vendor" -> "vendor"
      [] OTHER -> name

\* df.rename(columns={old: new})
Rename(df, old, new) ==
    LET cols == (df.columns \ {old}) \cup {new}
    IN  [columns |-> cols,
         rows |-> [i \in 1 .. Len(df.rows) |->
                      [c \in cols |-> IF c = new THEN df.rows[i][old] ELSE df.rows[i][c]]]]

\* predict.py:17
NormalizeHeaders(df) ==
    [columns |-> {StripLower(c) : c \in df.columns},
     rows |-> [i \in 1 .. Len(df.rows) |->
                  [c \in {StripLower(x) : x \in df.columns} |->
                      df.rows[i][CHOOSE x \in df.columns : StripLower(x) = c]]]]

\* predict.py:20-24: the first alias that is a column is renamed to the target
RECURSIVE RenameFirstAlias(_, _, _)
RenameFirstAlias(df, target_name, possible_names) ==
    IF possible_names = <<>> THEN df
    ELSE IF Head(possible_names) \in df.columns
         THEN Rename(df, Head(possible_names), target_name)
         ELSE RenameFirstAlias(df, target_name, Tail(possible_names))

\* predict.py:18-24: column_map is a sequence of <<target, aliases>>, in dict order
RECURSIVE ApplyColumnMap(_, _)
ApplyColumnMap(df, column_map) ==
    IF column_map = <<>> THEN df
    ELSE LET target_name == Head(column_map)[1]
             possible_names == Head(column_map)[2]
             next == IF target_name \in df.columns THEN df
                     ELSE RenameFirstAlias(df, target_name, possible_names)
         IN  ApplyColumnMap(next, Tail(column_map))

\* predict.py:16-25
standardize_df_columns(df, column_map) == ApplyColumnMap(NormalizeHeaders(df), column_map)

\* predict.py:31
MATERIALS_COL_MAP ==
    << <<"material_id", <<"material", "id">> >>,
       <<"name", <<"description", "material_name">> >> >>

\* predict.py:32
PRICES_COL_MAP ==
    << <<"material_id", <<"material", "id">> >>, <<"date", <<"day">> >>,
       <<"price", <<"cost">> >>, <<"vendor_id", <<"vendor">> >> >>

\* predict.py:33
VENDORS_COL_MAP ==
    << <<"material_id", <<"material_id", "material">> >>,
       <<"vendor_id", <<"vendor_id", "vendor">> >>,
       <<"reliability_score", <<"reliability">> >>,
       <<"delivery_days", <<"avg_delivery_days">> >>,
       <<"price_per_unit", <<"price">> >> >>

\* A file pd.read_csv cannot read (missing, not a CSV): the call raises.
Unreadable == [columns |-> {"<unreadable>"}, rows |-> <<>>]

\* predict.py:40
FillName(df) ==
    IF "name" \in df.columns THEN df
    ELSE [columns |-> df.columns \cup {"name"},
          rows |-> [i \in 1 .. Len(df.rows) |->
                       [c \in df.columns \cup {"name"} |->
                           IF c = "name" THEN df.rows[i]["material_id"]
                           ELSE df.rows[i][c]]]]

\* The globals after the try block of initialize_data_from_csv, reading the
\* three files in the order of predict.py:37-39; each assignment takes effect
\* as soon as its read succeeds, and the first exception ends the block.
LoadTables(old, files) ==
    LET m == standardize_df_columns(files.materials, MATERIALS_COL_MAP)
        p == standardize_df_columns(files.prices, PRICES_COL_MAP)
        v == standardize_df_columns(files.vendors, VENDORS_COL_MAP)
    IN  IF files.materials = Unreadable
        THEN [materials |-> old.materials, prices |-> old.prices,
              vendors |-> old.vendors, success |-> FALSE]
        ELSE IF files.prices = Unreadable
        THEN [materials |-> m, prices |-> old.prices,
              vendors |-> old.vendors, success |-> FALSE]
        ELSE IF files.vendors = Unreadable
        THEN [materials |-> m, prices |-> p,
              vendors |-> old.vendors, success |-> FALSE]
        ELSE IF "name" \notin m.columns /\ "material_id" \notin m.columns
        THEN [materials |-> m, prices |-> p, vendors |-> v, success |-> FALSE]
        ELSE [materials |-> FillName(m), prices |-> p, vendors |-> v, success |-> TRUE]

\* The CSV files the data folder may hold.
MaterialFiles ==
    {Unreadable,
     [columns |-> {"material_id", "name"},
      rows |-> <<[material_id |-> "M1", name |-> "Steel"]>>],
     [columns |-> {"ID"}, rows |-> <<[ID |-> "M2"]>>],
     [columns |-> {"code"}, rows |-> <<[code |-> "M3"]>>]}

PriceFiles ==
    {Unreadable,
     [columns |-> {"material_id", "date", "price"},
      rows |-> <<[material_id |-> "M1", date |-> strftime(0), price |-> "10"]>>],
     [columns |-> {" Material ", "day", "cost"},
      rows |-> <<(" Material " :> "M2") @@ [day |-> strftime(1), cost |-> "12"]>>]}

VendorFiles ==
    {Unreadable,
     SampleVendors,
     [columns |-> {"material", "Vendor", "reliability", "avg_delivery_days", "price"},
      rows |-> <<[material |-> "M2", Vendor |-> "V4", reliability |-> 3,
                  avg_delivery_days |-> 0, price |-> 5]>>]}

DataFolders == [materials : MaterialFiles, prices : PriceFiles, vendors : VendorFiles]

Tables ==
    [materials |-> materials_df, prices |-> prices_df, vendors |-> vendors_df,
     success |-> initialization_success]

\* One call of initialize_data_from_csv on the data folder `files`.
initialize_data_from_csv(files) ==
    LET new == LoadTables(Tables, files)
    IN  /\ materials_df' = new.materials
        /\ prices_df' = new.prices
        /\ vendors_df' = new.vendors
        /\ initialization_success' = new.success
        /\ request' = [kind |-> "initialize_data_from_csv", files |-> files]
        /\ result' = [kind |-> "returned"]
        /\ UNCHANGED <<SYSTEM_REMINDERS, clock, created, emitted, threads>>

\* df[['material_id', 'name']].drop_duplicates().to_dict('records')
RECURSIVE DropDuplicates(_, _)
DropDuplicates(rows, seen) ==
    IF rows = <<>> THEN <<>>
    ELSE LET r == [material_id |-> Head(rows)["material_id"], name |-> Head(rows)["name"]]
         IN  IF r \in seen THEN DropDuplicates(Tail(rows), seen)
             ELSE <<r>> \o DropDuplicates(Tail(rows), seen \cup {r})

\* One call of get_materials (predict.py:48-50).
get_materials ==
    /\ request' = [kind |-> "get_materials"]
    /\ result' = IF "material_id" \notin materials_df.columns
                 THEN [kind |-> "raise", exception |-> "ValueError"]
                 ELSE IF "name" \notin materials_df.columns
                 THEN [kind |-> "raise", exception |-> "KeyError"]
                 ELSE [kind |-> "materials",
                       records |-> DropDuplicates(materials_df.rows, {})]
    /\ UNCHANGED <<materials_df, prices_df, vendors_df, initialization_success,
                   SYSTEM_REMINDERS, clock, created, emitted, threads>>

\* The module's globals before the first load (predict.py:10-14).
InitLoad ==
    /\ materials_df = EmptyFrame
    /\ prices_df = EmptyFrame
    /\ vendors_df = EmptyFrame
    /\ initialization_success = FALSE
    /\ SYSTEM_REMINDERS = <<>>
    /\ clock = [day |-> 0, sec |-> 0]
    /\ request = NoCall
    /\ result = NoCall
    /\ created = <<>>
    /\ emitted = <<>>
    /\ threads = NoThreads

NextLoad ==
    \/ \E files \in DataFolders : initialize_data_from_csv(files)
    \/ get_materials

SpecLoad == InitLoad /\ [][NextLoad]_vars

\* C3: a load that fails at one of its three reads leaves all three tables as
\* they were before it started and reports the failure in
\* initialization_success.
C3_FailedLoadKeepsTables ==
    [][(/\ request'.kind = "initialize_data_from_csv"
        /\ Unreadable \in {request'.files.materials, request'.files.prices,
                           request'.files.vendors})
        => /\ materials_df' = materials_df
           /\ prices_df' = prices_df
           /\ vendors_df' = vendors_df
           /\ initialization_success' = FALSE]_vars

---------------------------------------------------------------------------
\* get_system_alerts and check_requirement called from several request
\* threads.  No lock guards SYSTEM_REMINDERS (predict.py:14, 154, 178, 188):
\* the interpreter makes each list operation (the copy, the append, the remove)
\* atomic and may switch threads between any two of them.  The calls all fall
\* within one second of the clock.

Pollers == {"p1", "p2"}

Idle == [pc |-> "idle", today_str |-> <<>>, copy |-> <<>>, alerts |-> <<>>, serials |-> {}]

\* predict.py:174-178: the date is read, the list is copied
poll_begin(t) ==
    /\ threads[t].pc = "idle"
    /\ threads' = [threads EXCEPT ![t] =
                      [pc |-> "loop", today_str |-> strftime(Today),
                       copy |-> SYSTEM_REMINDERS, alerts |-> <<>>, serials |-> {}]]
    /\ request' = NoCall
    /\ result' = NoCall
    /\ UNCHANGED <<materials_df, prices_df, vendors_df, initialization_success,
                   SYSTEM_REMINDERS, clock, created, emitted>>

\* predict.py:178-189: the loop body for the next entry of the copy; a
\* ValueError of list.remove ends the call, and its alerts are never returned
poll_iterate(t) ==
    /\ threads[t].pc = "loop"
    /\ threads[t].copy # <<>>
    /\ LET one == Iterate(Head(threads[t].copy), SYSTEM_REMINDERS, threads[t].today_str)
       IN  /\ SYSTEM_REMINDERS' = one.live
           /\ IF one.raised
              THEN /\ threads' = [threads EXCEPT ![t] = Idle]
                   /\ request' = [kind |-> "get_system_alerts", thread |-> t]
                   /\ result' = [kind |-> "raise", exception |-> "ValueError"]
              ELSE /\ threads' = [threads EXCEPT ![t] =
                                     [@ EXCEPT !.copy = Tail(@),
                                               !.alerts = @ \o one.alerts,
                                               !.serials = @ \cup one.serials]]
                   /\ request' = NoCall
                   /\ result' = NoCall
    /\ UNCHANGED <<materials_df, prices_df, vendors_df, initialization_success,
                   clock, created, emitted>>

\* predict.py:191
poll_return(t) ==
    /\ threads[t].pc = "loop"
    /\ threads[t].copy = <<>>
    /\ threads' = [threads EXCEPT ![t] = Idle]
    /\ request' = [kind |-> "get_system_alerts", thread |-> t]
    /\ result' = [kind |-> "alerts", alerts |-> threads[t].alerts]
    /\ emitted' = Emit(threads[t].serials)
    /\ UNCHANGED <<materials_df, prices_df, vendors_df, initialization_success,
                   SYSTEM_REMINDERS, clock, created>>

InitConc ==
    /\ materials_df = SampleMaterials
    /\ prices_df = EmptyFrame
    /\ vendors_df = SampleVendors
    /\ initialization_success = TRUE
    /\ SYSTEM_REMINDERS = <<>>
    /\ clock = [day |-> 0, sec |-> 0]
    /\ request = NoCall
    /\ result = NoCall
    /\ created = <<>>
    /\ emitted = <<>>
    /\ threads = [t \in Pollers |-> Idle]

NextConc ==
    \/ \E req \in StockRequirements : check_requirement(req)
    \/ \E t \in Pollers : poll_begin(t)
    \/ \E t \in Pollers : poll_iterate(t)
    \/ \E t \in Pollers : poll_return(t)

SpecConc == InitConc /\ [][NextConc]_vars

\* The reminders a running poll has alerted and not yet returned.
InFlight == UNION {threads[t].serials : t \in DOMAIN threads}

\* C2: under any interleaving of calls, no reminder is in the alert lists of
\* two polls, no poll tries to remove a reminder another poll already
\* removed (list.remove raising ValueError), and every reminder appended is
\* pending, being returned, or was returned.
C2_MutuallyExclusive ==
    /\ \A s \in DOMAIN emitted : emitted[s] <= 1
    /\ ~(result.kind = "raise" /\ result.exception = "ValueError")
    /\ \A s \in DOMAIN created :
          s \in PendingSerials \/ s \in InFlight \/ emitted[s] >= 1

---------------------------------------------------------------------------
\* get_price_prediction (predict.py:52-73).  The cells of the price table are
\* CSV text; the fitted prices and their band are left out, the dates of the
\* history and of the projections are modelled.

\* The rows of a price table drawn as an input.
MaxPriceRows == 3

\* range(1, 8) of predict.py:66-67: the days projected
ForecastDays == 7

\* The texts pd.to_numeric reads as a number, by value + 1.
NumberTexts == <<"0", "1", "2", "3", "4", "5">>

\* An empty CSV field
NaN == "<NaN>"

\* Whether pd.to_numeric(x, errors='coerce') is a number (not NaN)
IsNumber(cell) == \E i \in 1 .. Len(NumberTexts) : NumberTexts[i] = cell

\* pd.to_numeric(x, errors='coerce') where it is a number
ToNumeric(cell) == (CHOOSE i \in 1 .. Len(NumberTexts) : NumberTexts[i] = cell) - 1

\* predict.py:57-59: the rows dropna(subset=["price", "date"]) keeps
SurvivesCoercion(r) == IsNumber(r["price"]) /\ IsDateText(r["date"])

MaxOf(S) == CHOOSE x \in S : \A y \in S : y <= x
MinOf(S) == CHOOSE x \in S : \A y \in S : x <= y

\* The dates of a frame whose date column is coerced.
DatesOf(rows) == {strptime(rows[i]["date"]) : i \in 1 .. Len(rows)}

\* Projections that start from the last row instead of the latest date.
FutureDates_FromLastRow(rows) ==
    [i \in 1 .. ForecastDays |-> strptime(rows[Len(rows)]["date"]) + i]

\* predict.py:67
FutureDates(rows) == [i \in 1 .. ForecastDays |-> MaxOf(DatesOf(rows)) + i]

\* predict.py:61, 72: the history, with day_num and the date as text again
History(rows) ==
    [i \in 1 .. Len(rows) |->
        [material_id |-> rows[i]["material_id"],
         date |-> strftime(strptime(rows[i]["date"])),
         price |-> ToNumeric(rows[i]["price"]),
         day_num |-> strptime(rows[i]["date"]) - MinOf(DatesOf(rows))]]

\* predict.py:52-73
GetPricePrediction(df, material_id) ==
    LET selected == ForMaterial(df, material_id)
        valid == SelectSeq(selected, SurvivesCoercion)
        future_dates == FutureDates(valid)
    IN  IF ~({"material_id", "date", "price"} \subseteq df.columns)
        THEN [kind |-> "raise", exception |-> "ValueError"]
        ELSE IF Len(selected) < 2 THEN [kind |-> "NotEnoughData"]
        ELSE IF Len(valid) < 2 THEN [kind |-> "NotEnoughData"]
        ELSE [kind |-> "forecast",
              historical |-> History(valid),
              predictions |-> [i \in 1 .. ForecastDays |->
                                  [date |-> strftime(future_dates[i])]]]

\* One call of get_price_prediction.
get_price_prediction(material_id) ==
    /\ request' = [kind |-> "get_price_prediction", material_id |-> material_id]
    /\ result' = GetPricePrediction(prices_df, material_id)
    /\ UNCHANGED <<materials_df, prices_df, vendors_df, initialization_success,
                   SYSTEM_REMINDERS, clock, created, emitted, threads>>

PricePoint(material_id, date, price) ==
    [material_id |-> material_id, date |-> date, price |-> price]

\* Price points out of order, over the end of the year and of a month, with a
\* date that does not exist, a price that is no number and an empty price.
PriceRows ==
    {PricePoint("M1", strftime(2), "3"), PricePoint("m1", strftime(0), "5"),
     PricePoint("M1", strftime(33), "2"), PricePoint("M1", <<2025, 2, 30>>, "4"),
     PricePoint("M1", strftime(1), "abc"), PricePoint("M1", strftime(1), NaN)}

PriceTables ==
    {[columns |-> {"material_id", "date", "price"}, rows |-> rows] :
        rows \in SeqsUpTo(PriceRows, MaxPriceRows)}

InitForecast ==
    /\ materials_df = SampleMaterials
    /\ prices_df \in PriceTables
    /\ vendors_df = SampleVendors
    /\ initialization_success = TRUE
    /\ SYSTEM_REMINDERS = <<>>
    /\ clock = [day |-> 0, sec |-> 0]
    /\ request = NoCall
    /\ result = NoCall
    /\ created = <<>>
    /\ emitted = <<>>
    /\ threads = NoThreads

NextForecast == \E material_id \in {"m1", "M2"} : get_price_prediction(material_id)

SpecForecast == InitForecast /\ [][NextForecast]_vars

\* The positions of the material's price points whose price and date both
\* parse.
ValidPoints(material_id) ==
    {i \in 1 .. Len(prices_df.rows) :
        /\ Lower(prices_df.rows[i]["material_id"]) = Lower(material_id)
        /\ IsNumber(prices_df.rows[i]["price"])
        /\ IsDateText(prices_df.rows[i]["date"])}

\* C9: the forecast is NotEnoughData (nothing else returned) exactly when
\* fewer than 2 of the material's price points survive the coercion of price
\* and date; otherwise it has exactly 7 projections, in chronological order,
\* dated the 7 calendar days after the latest valid historical date.
C9_SevenDaysAfterLatest ==
    request.kind = "get_price_prediction" =>
        LET valid == ValidPoints(request.material_id)
            latest == MaxOf({strptime(prices_df.rows[i]["date"]) : i \in valid})
        IN  /\ result.kind = "NotEnoughData" <=> Cardinality(valid) < 2
            /\ Cardinality(valid) >= 2 =>
                 /\ result.kind = "forecast"
                 /\ Len(result.historical) = Cardinality(valid)
                 /\ Len(result.predictions) = 7
                 /\ \A k \in 1 .. 7 : result.predictions[k].date = strftime(latest + k)
                 /\ \A k \in 1 .. 6 :
                       /\ StrLeq(result.predictions[k].date, result.predictions[k + 1].date)
                       /\ result.predictions[k].date # result.predictions[k + 1].date

\* A forecast from price points out of date order, one of the material's rows
\* dropped by the coercion, whose projections run over the end of the year.
C9_Witness ==
    /\ request.kind = "get_price_prediction"
    /\ result.kind = "forecast"
    /\ Len(result.historical) = 2
    /\ Len(prices_df.rows) = 3
    /\ result.historical[1].day_num > result.historical[2].day_num
    /\ result.predictions[1].date[1] # result.predictions[7].date[1]

---------------------------------------------------------------------------
\* get_vendor_recommendation (predict.py:75-100).  The cells of the vendors
\* table are CSV text; a score is the exact fraction <<numerator, denominator>>.

\* predict.py:80
NumericColumns == {"reliability_score", "delivery_days", "price_per_unit"}

\* predict.py:80-81: after the three columns are coerced, dropna() keeps the
\* rows without a NaN in any column of the frame
HasNoNaN(r) ==
    \A c \in DOMAIN r : IF c \in NumericColumns THEN IsNumber(r[c]) ELSE r[c] # NaN

\* predict.py:78-82: the index labels of the candidates
Candidates(df, material_id) ==
    {i \in 1 .. Len(df.rows) :
        /\ Lower(df.rows[i]["material_id"]) = Lower(material_id)
        /\ HasNoNaN(df.rows[i])}

ColumnMax(df, idx, col) == MaxOf({ToNumeric(df.rows[i][col]) : i \in idx})

\* predict.py:83-86: final_score of row i among the candidates idx, as a
\* fraction over 5 * 100 * (max delivery_days or 1) * (max price_per_unit or 1)
FinalScore(df, idx, i, weights) ==
    LET max_del == ColumnMax(df, idx, "delivery_days")
        max_price == ColumnMax(df, idx, "price_per_unit")
        D == IF max_del > 0 THEN max_del ELSE 1
        P == IF max_price > 0 THEN max_price ELSE 1
        rel == ToNumeric(df.rows[i]["reliability_score"]) * weights.reliability * D * P
        del == IF max_del > 0
               THEN (D - ToNumeric(df.rows[i]["delivery_days"])) * weights.delivery * 5 * P
               ELSE 0
        price == IF max_price > 0
                 THEN (P - ToNumeric(df.rows[i]["price_per_unit"])) * weights.price * 5 * D
                 ELSE 0
    IN  <<rel + del + price, 500 * D * P>>

\* predict.py:87: idxmax, the first label with the largest final_score
BestLabel(df, idx, weights) ==
    CHOOSE i \in idx :
        /\ \A j \in idx : FinalScore(df, idx, j, weights)[1] <= FinalScore(df, idx, i, weights)[1]
        /\ \A j \in idx : j < i =>
              FinalScore(df, idx, j, weights)[1] < FinalScore(df, idx, i, weights)[1]

\* predict.py:91-98 and one record of predict.py:100
ScoredVendor(df, idx, i, weights) ==
    [index |-> i,
     material_id |-> df.rows[i]["material_id"],
     vendor_id |-> df.rows[i]["vendor_id"],
     reliability_score |-> ToNumeric(df.rows[i]["reliability_score"]),
     delivery_days |-> ToNumeric(df.rows[i]["delivery_days"]),
     price_per_unit |-> ToNumeric(df.rows[i]["price_per_unit"]),
     final_score |-> FinalScore(df, idx, i, weights)]

\* predict.py:100: the orders sort_values(by='final_score', ascending=False) may
\* give; the order of equal scores is the sort's own
RankedOrders(df, idx, weights) ==
    {order \in [1 .. Cardinality(idx) -> idx] :
        /\ \A a, b \in 1 .. Cardinality(idx) : a # b => order[a] # order[b]
        /\ \A a, b \in 1 .. Cardinality(idx) : a < b =>
              FinalScore(df, idx, order[a], weights)[1]
                  >= FinalScore(df, idx, order[b], weights)[1]}

\* One call of get_vendor_recommendation.
get_vendor_recommendation(material_id, weights) ==
    LET idx == Candidates(vendors_df, material_id)
    IN  /\ request' = [kind |-> "get_vendor_recommendation",
                       material_id |-> material_id, weights |-> weights]
        /\ IF ~(RankRequiredColumns \subseteq vendors_df.columns)
           THEN result' = [kind |-> "raise", exception |-> "ValueError"]
           ELSE IF idx = {}
           THEN result' = [kind |-> "NoVendors"]
           ELSE \E order \in RankedOrders(vendors_df, idx, weights) :
                   result' =
                       [kind |-> "recommendation",
                        best_vendor |-> ScoredVendor(vendors_df, idx,
                                            BestLabel(vendors_df, idx, weights), weights),
                        all_vendors |-> [k \in 1 .. Cardinality(idx) |->
                                            ScoredVendor(vendors_df, idx, order[k], weights)]]
        /\ UNCHANGED <<materials_df, prices_df, vendors_df, initialization_success,
                       SYSTEM_REMINDERS, clock, created, emitted, threads>>

RawOffer(material_id, vendor_id, reliability_score, delivery_days, price_per_unit, notes) ==
    [material_id |-> material_id, vendor_id |-> vendor_id,
     reliability_score |-> reliability_score, delivery_days |-> delivery_days,
     price_per_unit |-> price_per_unit, notes |-> notes]

\* Offers as read from a vendors.csv that has one more column, notes: complete
\* ones, one with an empty note, one with an empty vendor id, and ones with a
\* numeric field that is no number or empty.
RawOffers ==
    {RawOffer("M1", "V1", "4", "1", "3", "ok"), RawOffer("m1", "V2", "5", "3", "2", NaN),
     RawOffer("M1", "V3", "abc", "2", "4", "ok"), RawOffer("M1", "V4", "3", NaN, "1", "ok"),
     RawOffer("M1", NaN, "2", "0", "5", "ok"), RawOffer("M2", "V5", "1", "2", "0", "ok")}

RawVendorTables ==
    {[columns |-> VendorColumns \cup {"notes"}, rows |-> rows] :
        rows \in SeqsUpTo(RawOffers, MaxRows)}

\* The weights of app.py:49-53, in percent: the defaults and price alone.
WeightChoices ==
    {[price |-> 20, delivery |-> 30, reliability |-> 50],
     [price |-> 100, delivery |-> 0, reliability |-> 0]}

InitRank ==
    /\ materials_df = SampleMaterials
    /\ prices_df = EmptyFrame
    /\ vendors_df \in RawVendorTables
    /\ initialization_success = TRUE
    /\ SYSTEM_REMINDERS = <<>>
    /\ clock = [day |-> 0, sec |-> 0]
    /\ request = NoCall
    /\ result = NoCall
    /\ created = <<>>
    /\ emitted = <<>>
    /\ threads = NoThreads

NextRank ==
    \E material_id \in {"m1", "M2"}, weights \in WeightChoices :
        get_vendor_recommendation(material_id, weights)

SpecRank == InitRank /\ [][NextRank]_vars

\* The positions of the material's offers whose three numeric fields parse.
ParsableOffers(material_id) ==
    {i \in 1 .. Len(vendors_df.rows) :
        /\ Lower(vendors_df.rows[i]["material_id"]) = Lower(material_id)
        /\ \A c \in NumericColumns : IsNumber(vendors_df.rows[i][c])}

\* C10: the offers ranked are exactly the material's offers whose three
\* numeric fields all parse (an offer is left out only for an unparsable one of
\* the three, never for another empty column), with their parsed values, and
\* NoVendors is reported exactly when there is none.
C10_RanksParsableOffers ==
    request.kind = "get_vendor_recommendation" =>
        LET parsable == ParsableOffers(request.material_id)
        IN  /\ result.kind = "NoVendors" <=> parsable = {}
            /\ parsable # {} =>
                 /\ result.kind = "recommendation"
                 /\ {result.all_vendors[k].index : k \in 1 .. Len(result.all_vendors)}
                        = parsable
                 /\ Len(result.all_vendors) = Cardinality(parsable)

---------------------------------------------------------------------------
\* Properties of the reminder list (Spec).

\* C1: whatever the order of the calls and however the date moves between
\* them, no reminder is in more than one returned alert list, and a reminder
\* that was returned is no longer pending.
C1_EmittedAtMostOnce ==
    \A s \in DOMAIN emitted :
        /\ emitted[s] <= 1
        /\ emitted[s] = 1 => s \notin PendingSerials

\* Two reminders with equal dicts were each returned once, and the poll that
\* just ran found them due again and returned nothing.
C1_Witness ==
    /\ request.kind = "get_system_alerts"
    /\ result.kind = "alerts"
    /\ result.alerts = <<>>
    /\ \E s, t \in DOMAIN emitted :
          /\ s # t
          /\ created[s] = created[t]
          /\ emitted[s] = 1
          /\ emitted[t] = 1
          /\ StrLeq(created[s].reminder_date, strftime(Today))

\* C8: no two reminders ever appended have the same id.
C8_IdsUnique ==
    \A s, t \in DOMAIN created : s # t => created[s].id # created[t].id

---------------------------------------------------------------------------
\* Properties of check_requirement (SpecEval).

IsCheck(req) == req.kind = "check_requirement"

\* The positions of the offers of the requested material, ids compared
\* without case.
MaterialOffers(req) ==
    {i \in 1 .. Len(vendors_df.rows) :
        Lower(vendors_df.rows[i]["material_id"]) = Lower(req.material_id)}

\* Those of them that deliver within the days left.
OffersInTime(req, today) ==
    {i \in MaterialOffers(req) :
        vendors_df.rows[i]["delivery_days"] <= strptime(req.deadline) - today}

\* The vendor a result reports is offer i, priced for the quantity asked.
Reports(res, req, i, is_feasible) ==
    /\ res.vendor_details.vendor_id = vendors_df.rows[i]["vendor_id"]
    /\ res.vendor_details.total_price =
           FormatRupees(req.quantity * vendors_df.rows[i]["price_per_unit"])
    /\ res.vendor_details.is_feasible = is_feasible

\* C4: a deadline before today gives Invalid Deadline whatever the vendors
\* table holds, names no vendor and leaves the reminder list as it was.
C4_PastDeadlineInvalid ==
    [][(IsCheck(request') /\ strptime(request'.deadline) < clock'.day)
        => /\ result'.kind = "check_requirement"
           /\ result'.title = "Invalid Deadline"
           /\ result'.status = "error"
           /\ result'.vendor_details = NoVendor
           /\ SYSTEM_REMINDERS' = SYSTEM_REMINDERS]_vars

\* A past deadline was refused although the material has offers and a reminder
\* is pending.
C4_Witness ==
    /\ IsCheck(request)
    /\ strptime(request.deadline) < Today
    /\ MaterialOffers(request) # {}
    /\ SYSTEM_REMINDERS # <<>>
    /\ result.title = "Invalid Deadline"

\* C5: with the deadline not before today, the result is Feasible exactly when
\* an offer of the material delivers within the days left; the vendor reported
\* is then one of those offers with the highest reliability among them, priced
\* quantity * price_per_unit, and flagged feasible.
C5_FeasibleChoice ==
    (IsCheck(request) /\ strptime(request.deadline) >= Today) =>
        LET ok == OffersInTime(request, Today)
            rows == vendors_df.rows
        IN  /\ result.kind = "check_requirement"
            /\ result.title = "Requirement Feasible" <=> ok # {}
            /\ ok # {} =>
                 \E i \in ok :
                    /\ \A j \in ok :
                          rows[j]["reliability_score"] <= rows[i]["reliability_score"]
                    /\ Reports(result, request, i, TRUE)

\* The deadline is today and an offer that delivers the same day
\* was chosen: the boundary case of the filter.
C5_Witness ==
    /\ IsCheck(request)
    /\ strptime(request.deadline) = Today
    /\ result.title = "Requirement Feasible"
    /\ result.vendor_details.delivery_days = 0

\* C6: with the deadline not before today, a material with offers none of
\* which delivers in time gives Deadline Unmet with an offer of the least
\* delivery_days among all its offers, priced quantity * price_per_unit and
\* flagged infeasible; a material without offers gives No Suppliers Found.
C6_UnmetOrNoSuppliers ==
    (IsCheck(request) /\ strptime(request.deadline) >= Today) =>
        LET mine == MaterialOffers(request)
            ok == OffersInTime(request, Today)
            rows == vendors_df.rows
        IN  /\ result.kind = "check_requirement"
            /\ mine = {} => result.title = "No Suppliers Found"
            /\ (mine # {} /\ ok = {}) =>
                 /\ result.title = "Deadline Unmet"
                 /\ \E i \in mine :
                       /\ \A j \in mine :
                             rows[i]["delivery_days"] <= rows[j]["delivery_days"]
                       /\ Reports(result, request, i, FALSE)

\* Deadline Unmet where the fastest offer is not the first row of the material.
C6_Witness ==
    /\ IsCheck(request)
    /\ result.title = "Deadline Unmet"
    /\ Cardinality(MaterialOffers(request)) = 2
    /\ Len(vendors_df.rows) = 2
    /\ vendors_df.rows[1]["delivery_days"] > vendors_df.rows[2]["delivery_days"]

\* C7: a call appends exactly one reminder if and only if it is Feasible and
\* deadline - 2 days >= today; the reminder carries reminder_date = deadline - 2
\* days, the requirement's material_id, quantity and deadline and the vendor
\* the result reports. Every other call leaves the list as it was, and no call
\* removes or alters an entry.
C7_ReminderAppended ==
    [][IsCheck(request') =>
        IF /\ result'.kind = "check_requirement"
           /\ result'.title = "Requirement Feasible"
           /\ strptime(request'.deadline) - 2 >= clock'.day
        THEN /\ Len(SYSTEM_REMINDERS') = Len(SYSTEM_REMINDERS) + 1
             /\ SubSeq(SYSTEM_REMINDERS', 1, Len(SYSTEM_REMINDERS)) = SYSTEM_REMINDERS
             /\ LET r == SYSTEM_REMINDERS'[Len(SYSTEM_REMINDERS')].dict
                IN  /\ r.reminder_date = strftime(strptime(request'.deadline) - 2)
                    /\ r.material_id = request'.material_id
                    /\ r.quantity = request'.quantity
                    /\ r.deadline = request'.deadline
                    /\ r.assigned_vendor = result'.vendor_details.vendor_id
        ELSE SYSTEM_REMINDERS' = SYSTEM_REMINDERS]_vars

\* A feasible call appended a second reminder behind the one already pending.
C7_Witness ==
    /\ IsCheck(request)
    /\ result.title = "Requirement Feasible"
    /\ Len(SYSTEM_REMINDERS) = 2
    /\ SYSTEM_REMINDERS[2].dict.deadline = request.deadline
    /\ SYSTEM_REMINDERS[1].dict.deadline # request.deadline

===========================================================================
